---- MODULE Spec2Model ----
(***************************************************************************)
(* A model of the binarization pipeline of DiffSinger:                     *)
(*   preprocessing/variance_binarizer.py  (VarianceBinarizer)              *)
(*   preprocessing/acoustic_binarizer.py  (AcousticBinarizer)              *)
(*                                                                         *)
(* Times are exact rationals: a duration is a whole number of ticks and    *)
(* the hop (timestep) is a whole number of ticks, so seconds / timestep is *)
(* the fraction ticks / hop.  The float32 rounding error of the tensors is *)
(* not modelled.                                                           *)
(***************************************************************************)
EXTENDS Integers, Sequences, FiniteSets, TLC

VARIABLES
    \* ---- VarianceBinarizer.process_item ----
    timestep,     \* self.timestep, in ticks per frame
    meta_data,    \* the item handed to process_item
    item_pc,      \* "loaded" | "processed"
    processed_input,  \* the record process_item returns, or NoRecord
    \* ---- check_coverage ----
    binarizer,    \* "acoustic" | "variance": the class of self
    items,        \* self.items: the ph_seq of each item, in iteration order
    ph_required,  \* set(build_phoneme_list())
    cov_pc,       \* "idle" | "loaded" | "checked"
    cov_result,   \* how check_coverage ended
    \* ---- AcousticBinarizer.arrange_data_augmentation ----
    hparams,            \* the flags and num_spk the scheduler reads
    augmentation_args,  \* self.augmentation_args
    spk_count,          \* len(self.spk_map)
    all_item_names,     \* the item names of the split, in iteration order
    aug_map,            \* item name -> the tasks queued for it (references
                        \* into aug_list: the same dict objects)
    aug_list,           \* every task created so far, in creation order
    aug_rand,           \* for each task of aug_list, the random value drawn
                        \* for its key_shift
    total_scale,        \* the accumulated scale, a fraction <<num, den>>
    aug_pc,             \* the block of arrange_data_augmentation to run next
    \* ---- process and process_data_split ----
    corpus,         \* self.items with their split: what meta_data_iterator
                    \* yields, and what the feature extractors would find
    num_workers,    \* binarization_args['num_workers'] (train split)
    pc,             \* the driver's position in process
    prefix,         \* the split process_data_split is working on
    args,           \* the items of the split not yet handed to process_item
    results,        \* parallel mode: results the workers produced and the
                    \* driver has not consumed yet
    builder,        \* per split, the records added to the store, and
                    \* whether it is finalized
    lengths,        \* the lengths list of process_data_split
    lengths_file,   \* per split, the saved '{prefix}.lengths' file
    total_sec,
    total_raw_sec,
    error,          \* the exception that ended process, or "none"
    processed       \* the item names process_item was called for

itemVars == <<timestep, meta_data, item_pc, processed_input>>
covVars == <<binarizer, items, ph_required, cov_pc, cov_result>>
augVars == <<hparams, augmentation_args, spk_count, all_item_names, aug_map,
             aug_list, aug_rand, total_scale, aug_pc>>
drvVars == <<corpus, num_workers, pc, prefix, args, results, builder, lengths,
             lengths_file, total_sec, total_raw_sec, error, processed>>
vars == <<itemVars, covVars, augVars, drvVars>>

(***************************************************************************)
(* Bounds of the model.                                                    *)
(***************************************************************************)
MaxUnits == 3      \* phonemes per item
MaxNotes == 2      \* notes per item
MaxDur == 3        \* ticks per unit duration
MaxHop == 2        \* ticks per frame
MaxCovItems == 2   \* items of the corpus check_coverage scans
MaxPhLen == 2      \* phonemes per item in check_coverage
MaxItems == 2      \* items of a split
MaxSpk == 2        \* speakers (datasets)
RandSteps == 1     \* random.uniform(-1, 1) draws a multiple of 1 / RandSteps

NoRecord == [name |-> "none"]

(***************************************************************************)
(* Sequence helpers.                                                       *)
(***************************************************************************)
RECURSIVE SumSeq(_)
SumSeq(s) == IF s = <<>> THEN 0 ELSE Head(s) + SumSeq(Tail(s))

SeqsUpTo(S, lo, hi) == UNION {[1..n -> S] : n \in lo..hi}

\* torch.cumsum(x, dim=0)
cumsum(s) == [i \in 1..Len(s) |-> SumSeq(SubSeq(s, 1, i))]

\* torch.diff(x, dim=0, prepend=[0])
diff(s) == [i \in 1..Len(s) |-> IF i = 1 THEN s[1] - 0 ELSE s[i] - s[i - 1]]

\* round(num / den) for den > 0 and num >= 0: Python's round and torch.round
\* both round an exact half to the even neighbour.
round(num, den) ==
    LET q == num \div den
        r == num % den
    IN  IF 2 * r < den THEN q
        ELSE IF 2 * r > den THEN q + 1
        ELSE IF q % 2 = 0 THEN q ELSE q + 1

\* the number of frames of frame->unit array m that carry unit index i
FramesOf(m, i) == Cardinality({p \in 1..Len(m) : m[p] = i})

NonDecreasing(m) == \A p \in 1..Len(m) - 1 : m[p] <= m[p + 1]

(***************************************************************************)
(* Timeline Aligner: utils.binarizer_utils.get_mel2ph_torch and            *)
(* modules.fastspeech.tts_modules.LengthRegulator.                         *)
(***************************************************************************)
\* LengthRegulator: repeat each unit's 1-based index for its frame count.
LengthRegulator(dur) ==
    LET acc == cumsum(dur)
        total == IF dur = <<>> THEN 0 ELSE acc[Len(dur)]
    IN  [p \in 1..total |->
            CHOOSE i \in 1..Len(dur) :
                /\ (IF i = 1 THEN 0 ELSE acc[i - 1]) <= p - 1
                /\ p - 1 < acc[i]]

\* cumulative boundary -> frame index: round(cumulative_seconds / hop + 0.5)
AlignerBoundaries(durs, hop) ==
    [i \in 1..Len(durs) |-> round(2 * cumsum(durs)[i] + hop, 2 * hop)]

\* a mel2ph that is not brought to the target frame count
get_mel2ph_torch_unfitted(durs, length, hop) ==
    LengthRegulator(diff(AlignerBoundaries(durs, hop)))

\* get_mel2ph_torch(lr, durs, length, timestep): the frame->unit array for
\* the target frame count; the last unit absorbs the difference.
get_mel2ph_torch(durs, length, hop) ==
    LET frames == diff(AlignerBoundaries(durs, hop))
        mel2ph == LengthRegulator(frames)
        n == Len(mel2ph)
    IN  IF \E i \in 1..Len(frames) : frames[i] < 0 THEN <<"AlignmentError">>
        ELSE IF n < length THEN mel2ph \o [p \in 1..(length - n) |-> Len(durs)]
        ELSE IF n > length THEN SubSeq(mel2ph, 1, length)
        ELSE mel2ph

(***************************************************************************)
(* VarianceBinarizer.process_item, lines 82-137.  A note of note_seq is its *)
(* MIDI pitch, 0 for 'rest'.  The smoothing of line 135 and the pitch      *)
(* extraction of lines 140-147 are not modelled.                           *)
(***************************************************************************)
\* length = round(seconds / self.timestep)
length_frames(seconds, hop) == round(seconds, hop)

\* ph_acc = torch.round(torch.cumsum(ph_dur_sec) / self.timestep + 0.5)
ph_acc(ph_dur_sec, hop) ==
    [i \in 1..Len(ph_dur_sec) |-> round(2 * cumsum(ph_dur_sec)[i] + hop, 2 * hop)]

\* ph_dur = torch.diff(ph_acc, dim=0, prepend=[0])
ph_dur_frames(ph_dur_sec, hop) == diff(ph_acc(ph_dur_sec, hop))

\* line 115: torch.gather(F.pad(note_pitch, [1, 0], value=0), 0, mel2note)
frame_midi_pitch_of(note_pitch, mel2note) ==
    [p \in 1..Len(mel2note) |->
        IF mel2note[p] = 0 THEN 0 ELSE note_pitch[mel2note[p]]]

\* line 119: for each phoneme, the number of its frames that are rest
ph_dur_rest_of(t_txt, mel2ph, rest) ==
    [i \in 1..t_txt |->
        Cardinality({p \in 1..Len(mel2ph) : mel2ph[p] = i /\ rest[p]})]

\* lines 107 and 118-123: the phoneme-level pitch before .long(), as the
\* fraction <<sum of the pitch of the phoneme's frames, divisor>>; every
\* frame of phoneme i is divided by
\* (ph_dur[i] - ph_dur_rest[i]) + (ph_dur[i] == ph_dur_rest[i])
ph_midi_of(ph_dur, mel2ph, frame_midi_pitch, rest) ==
    LET rests == ph_dur_rest_of(Len(ph_dur), mel2ph, rest)
    IN  [i \in 1..Len(ph_dur) |->
            IF \A p \in 1..Len(mel2ph) : mel2ph[p] # i THEN <<0, 1>>
            ELSE <<SumSeq([p \in 1..Len(mel2ph) |->
                             IF mel2ph[p] = i THEN frame_midi_pitch[p] ELSE 0]),
                   (ph_dur[i] - rests[i])
                       + (IF ph_dur[i] = rests[i] THEN 1 ELSE 0)>>]

\* interp1d(x, y, kind='nearest', fill_value='extrapolate') at frame p: the
\* value at the nearest position of x, the lower one when two are as near
interp_func(x, frame_midi_pitch, p) ==
    LET dist(q) == IF q < p THEN p - q ELSE q - p
        near == CHOOSE q \in x :
                   \A r \in x : dist(q) < dist(r) \/ (dist(q) = dist(r) /\ q <= r)
    IN  frame_midi_pitch[near]

\* lines 128-134: the rest frames take the value of the nearest non-rest
\* frame; interp1d raises ValueError when there is no non-rest frame
interpolate_rest(frame_midi_pitch, rest) ==
    LET x == {p \in 1..Len(rest) : ~rest[p]}
    IN  IF x = {} THEN [error |-> "ValueError"]
        ELSE [error |-> "none",
              frame_midi_pitch |->
                 [p \in 1..Len(rest) |->
                     IF rest[p] THEN interp_func(x, frame_midi_pitch, p)
                     ELSE frame_midi_pitch[p]]]

\* the dict process_item has built when it reaches line 137 or raises
variance_process_item(md, hop) ==
    LET seconds == SumSeq(md.ph_dur)
        length == length_frames(seconds, hop)
        ph_dur == ph_dur_frames(md.ph_dur, hop)
        mel2ph == get_mel2ph_torch(md.ph_dur, length, hop)
        mel2note == get_mel2ph_torch(md.note_dur, Len(mel2ph), hop)
        frame_midi_pitch == frame_midi_pitch_of(md.note_seq, mel2note)
        rest == [p \in 1..Len(mel2note) |-> frame_midi_pitch[p] = 0]
    IN  [name |-> "item",
         seconds |-> seconds,
         length |-> length,
         ph_dur |-> ph_dur,
         mel2ph |-> mel2ph,
         mel2note |-> mel2note,
         rest |-> rest,
         midi |-> ph_midi_of(ph_dur, mel2ph, frame_midi_pitch, rest),
         base_pitch |-> interpolate_rest(frame_midi_pitch, rest)]

\* librosa.note_to_midi of the notes the model draws; 0 stands for 'rest'
NotePitches == {0, 60, 62}

\* load_meta_data, lines 69-72: note_seq and note_dur have one length and
\* some note is not 'rest'
Accepted(md) ==
    /\ Len(md.note_seq) = Len(md.note_dur)
    /\ \E n \in 1..Len(md.note_seq) : md.note_seq[n] # 0

\* the items the alignment is checked on: every note is the same pitch
MetaData ==
    {[ph_dur |-> ph, note_dur |-> nd, note_seq |-> [n \in 1..Len(nd) |-> 60]] :
        ph \in SeqsUpTo(0..MaxDur, 0, MaxUnits),
        nd \in SeqsUpTo(0..MaxDur, 1, MaxNotes)}

\* the items the pitch curve is checked on: rest and pitched notes
PitchMetaData ==
    {md \in [ph_dur : SeqsUpTo(0..MaxDur, 0, MaxUnits),
             note_dur : SeqsUpTo(0..MaxDur, 1, MaxNotes),
             note_seq : SeqsUpTo(NotePitches, 1, MaxNotes)] : Accepted(md)}

\* spec.md section 8, property 8: durations 0.1, 0.2, 0.1 at hop 0.01,
\* in ticks of 0.01 s
ExampleItem ==
    [ph_dur |-> <<10, 20, 10>>, note_dur |-> <<40>>, note_seq |-> <<60>>]

IdleItem ==
    /\ timestep = 1
    /\ meta_data = [ph_dur |-> <<>>, note_dur |-> <<>>, note_seq |-> <<>>]
    /\ item_pc = "idle"
    /\ processed_input = NoRecord

IdleCov ==
    /\ binarizer = "acoustic"
    /\ items = <<>>
    /\ ph_required = {}
    /\ cov_pc = "idle"
    /\ cov_result = [status |-> "none"]

NotConfigured == [configured |-> FALSE]

IdleAug ==
    /\ hparams = [use_key_shift_embed |-> TRUE, use_spk_id |-> TRUE,
                  use_speed_embed |-> TRUE, num_spk |-> 1]
    /\ augmentation_args =
          [random_pitch_shifting |-> NotConfigured,
           fixed_pitch_shifting |-> NotConfigured,
           random_time_stretching |-> NotConfigured]
    /\ spk_count = 1
    /\ all_item_names = <<>>
    /\ aug_map = <<>>
    /\ aug_list = <<>>
    /\ aug_rand = <<>>
    /\ total_scale = <<0, 1>>
    /\ aug_pc = "idle"

Splits == {"valid", "train"}

NotSaved == [saved |-> FALSE]

FreshStores ==
    /\ builder = [p \in Splits |-> [records |-> <<>>, finalized |-> FALSE]]
    /\ lengths = <<>>
    /\ lengths_file = [p \in Splits |-> NotSaved]
    /\ total_sec = 0
    /\ total_raw_sec = 0
    /\ results = <<>>
    /\ args = <<>>
    /\ error = "none"
    /\ processed = {}

IdleDriver ==
    /\ corpus = <<>>
    /\ num_workers = 0
    /\ pc = "idle"
    /\ prefix = "valid"
    /\ FreshStores

InitItem ==
    /\ IdleCov
    /\ IdleAug
    /\ IdleDriver
    /\ \/ /\ timestep \in 1..MaxHop
          /\ meta_data \in MetaData
       \/ /\ timestep = 1
          /\ meta_data = ExampleItem
    /\ item_pc = "loaded"
    /\ processed_input = NoRecord

ProcessItem ==
    /\ item_pc = "loaded"
    /\ processed_input' = variance_process_item(meta_data, timestep)
    /\ item_pc' = "processed"
    /\ UNCHANGED <<timestep, meta_data>>
    /\ UNCHANGED <<covVars, augVars, drvVars>>

NextItem == ProcessItem

SpecItem == InitItem /\ [][NextItem]_vars

\* process_item on the items of PitchMetaData
InitPitch ==
    /\ IdleCov
    /\ IdleAug
    /\ IdleDriver
    /\ timestep \in 1..MaxHop
    /\ meta_data \in PitchMetaData
    /\ item_pc = "loaded"
    /\ processed_input = NoRecord

SpecPitch == InitPitch /\ [][NextItem]_vars

(***************************************************************************)
(* Coverage Validator: check_coverage of both binarizers.  A phoneme is a  *)
(* number; the order of the numbers is the order sorted() gives the        *)
(* symbols (1 = 'a', 2 = 'b', 3 = 'c').                                    *)
(***************************************************************************)
Phonemes == {1, 2, 3}

Range(s) == {s[i] : i \in 1..Len(s)}

\* sorted(S)
sorted(S) ==
    CHOOSE s \in [1..Cardinality(S) -> S] :
        \A i \in 1..Cardinality(S) - 1 : s[i] < s[i + 1]

\* lines 80-85: ph_occurred += ph_seq for each item in turn; the loop raises
\* at the first item after which ph_occurred is still empty
RECURSIVE collect_ph_occurred(_, _, _)
collect_ph_occurred(its, k, ph_occurred) ==
    IF k > Len(its) THEN [raised |-> FALSE, ph_occurred |-> ph_occurred]
    ELSE LET occ == ph_occurred \o its[k]
         IN  IF Len(occ) = 0 THEN [raised |-> TRUE, item_name |-> k]
             ELSE collect_ph_occurred(its, k + 1, occ)

\* lines 77-79 and 86-89: occurrences of each required phoneme
phoneme_map(ph_occurred, required) ==
    [ph \in required |->
        Cardinality({i \in 1..Len(ph_occurred) : ph_occurred[i] = ph})]

\* line 122: ph_occurred.difference(ph_required)
unrecognizable_phones(occurred, required) == occurred \ required

missing_phones_none(occurred, required) == {}

\* line 123: ph_required.difference(ph_occurred)
missing_phones(occurred, required) == required \ occurred

\* AcousticBinarizer.check_coverage
acoustic_check_coverage(its, required) ==
    LET scan == collect_ph_occurred(its, 1, <<>>)
    IN  IF scan.raised
        THEN [status |-> "BinarizationError", message |-> "Empty tokens",
              item_name |-> scan.item_name]
        ELSE LET occurred == Range(scan.ph_occurred)
             IN  IF occurred # required
                 THEN [status |-> "BinarizationError",
                       message |-> "mismatch",
                       unrecognizable |->
                           sorted(unrecognizable_phones(occurred, required)),
                       missing |-> sorted(missing_phones(occurred, required)),
                       summary |-> phoneme_map(scan.ph_occurred, required)]
                 ELSE [status |-> "returned",
                       summary |-> phoneme_map(scan.ph_occurred, required)]

\* VarianceBinarizer.check_coverage: the check is skipped
variance_check_coverage(its, required) == [status |-> "returned"]

InitCov ==
    /\ IdleItem
    /\ IdleAug
    /\ IdleDriver
    /\ binarizer \in {"acoustic", "variance"}
    /\ items \in SeqsUpTo(SeqsUpTo(Phonemes, 0, MaxPhLen), 0, MaxCovItems)
    /\ ph_required \in SUBSET Phonemes
    /\ cov_pc = "loaded"
    /\ cov_result = [status |-> "none"]

CheckCoverageAcoustic ==
    /\ cov_pc = "loaded"
    /\ binarizer = "acoustic"
    /\ cov_result' = acoustic_check_coverage(items, ph_required)
    /\ cov_pc' = "checked"
    /\ UNCHANGED <<binarizer, items, ph_required>>
    /\ UNCHANGED <<itemVars, augVars, drvVars>>

CheckCoverageVariance ==
    /\ cov_pc = "loaded"
    /\ binarizer = "variance"
    /\ cov_result' = variance_check_coverage(items, ph_required)
    /\ cov_pc' = "checked"
    /\ UNCHANGED <<binarizer, items, ph_required>>
    /\ UNCHANGED <<itemVars, augVars, drvVars>>

NextCov == CheckCoverageAcoustic \/ CheckCoverageVariance

SpecCov == InitCov /\ [][NextCov]_vars

(***************************************************************************)
(* Augmentation Scheduler: AcousticBinarizer.arrange_data_augmentation.    *)
(* A scale, a speed and a key shift are fractions <<num, den>>, den > 0.   *)
(* An item name '{ds_id}:{name}' is the pair <<ds_id, name>>.              *)
(***************************************************************************)
RAdd(a, b) == <<a[1] * b[2] + b[1] * a[2], a[2] * b[2]>>
RMul(a, b) == <<a[1] * b[1], a[2] * b[2]>>
RDiv(a, b) == <<a[1] * b[2], a[2] * b[1]>>   \* b > 0
RLess(a, b) == a[1] * b[2] < b[1] * a[2]
RLeq(a, b) == a[1] * b[2] <= b[1] * a[2]
RInt(n) == <<n, 1>>
\* int(x) for x >= 0
int(a) == a[1] \div a[2]

\* random.uniform(-1, 1): the numerators of the values it may draw
UniformDraws == (0 - RandSteps)..RandSteps

Abs(n) == IF n < 0 THEN 0 - n ELSE n

\* k=int(scale * len(all_item_names))
choices_count(scale, names) == int(RMul(scale, RInt(Len(names))))

key_shift_no_abs(key_shift_min, key_shift_max, rand) ==
    IF rand < 0 THEN <<key_shift_min * rand, RandSteps>>
    ELSE <<key_shift_max * rand, RandSteps>>

\* lines 244-248: the key shift for the drawn value rand / RandSteps
key_shift_of(key_shift_min, key_shift_max, rand) ==
    IF rand < 0 THEN <<key_shift_min * Abs(rand), RandSteps>>
    ELSE <<key_shift_max * rand, RandSteps>>

\* aug_map after the task with reference ref was queued under name
\* (lines 254-257, 286-289, 327-330, 335-338)
map_append(map, name, ref) ==
    IF name \in DOMAIN map
    THEN [map EXCEPT ![name] = Append(@, ref)]
    ELSE [n \in DOMAIN map \cup {name} |->
            IF n = name THEN <<ref>> ELSE map[n]]

\* queue the tasks one after the other, each under its own name and at the
\* end of the global list
RECURSIVE append_tasks(_, _, _)
append_tasks(map, list, tasks) ==
    IF tasks = <<>> THEN [aug_map |-> map, aug_list |-> list]
    ELSE append_tasks(map_append(map, Head(tasks).name, Len(list) + 1),
                      Append(list, Head(tasks)), Tail(tasks))

\* lines 230-260
RandomPitchShifting ==
    /\ aug_pc = "random_pitch_shifting"
    /\ LET aug_args == augmentation_args.random_pitch_shifting
       IN  IF ~aug_args.configured
           THEN /\ aug_pc' = "fixed_pitch_shifting"
                /\ UNCHANGED <<aug_map, aug_list, aug_rand, total_scale>>
           ELSE IF ~hparams.use_key_shift_embed
                   \/ ~(aug_args.range[1] < 0 /\ 0 < aug_args.range[2])
           THEN /\ aug_pc' = "AssertionError"
                /\ UNCHANGED <<aug_map, aug_list, aug_rand, total_scale>>
           ELSE LET k == choices_count(aug_args.scale, all_item_names)
                IN  \E aug_item_names \in [1..k -> Range(all_item_names)],
                       rands \in [1..k -> UniformDraws] :
                       LET tasks == [j \in 1..k |->
                               [name |-> aug_item_names[j],
                                kwargs |-> [key_shift |->
                                    key_shift_of(aug_args.range[1],
                                                 aug_args.range[2], rands[j])]]]
                           queued == append_tasks(aug_map, aug_list, tasks)
                       IN  /\ aug_map' = queued.aug_map
                           /\ aug_list' = queued.aug_list
                           /\ aug_rand' = aug_rand \o rands
                           /\ total_scale' = RAdd(total_scale, aug_args.scale)
                           /\ aug_pc' = "fixed_pitch_shifting"
    /\ UNCHANGED <<hparams, augmentation_args, spk_count, all_item_names>>

NoDuplicates(s) == \A i, j \in 1..Len(s) : s[i] = s[j] => i = j

replace_spk_id_from_zero(ds_id, i, speakers) == ds_id + i * speakers

\* line 280: int(aug_item_name.split(':')[0]) + (i + 1) * len(self.spk_map),
\* i the 0-based index of the target
replace_spk_id(ds_id, i, speakers) == ds_id + (i + 1) * speakers

\* lines 262-292
FixedPitchShifting ==
    /\ aug_pc = "fixed_pitch_shifting"
    /\ LET aug_args == augmentation_args.fixed_pitch_shifting
       IN  IF ~aug_args.configured
           THEN /\ aug_pc' = "random_time_stretching"
                /\ UNCHANGED <<aug_map, aug_list, aug_rand, total_scale>>
           ELSE IF \/ augmentation_args.random_pitch_shifting.configured
                   \/ ~NoDuplicates(aug_args.targets)
                   \/ ~hparams.use_spk_id
                   \/ ~(hparams.num_spk >=
                          (1 + Len(aug_args.targets)) * spk_count)
                   \/ ~RLess(aug_args.scale, RInt(1))
           THEN /\ aug_pc' = "AssertionError"
                /\ UNCHANGED <<aug_map, aug_list, aug_rand, total_scale>>
           ELSE LET k == choices_count(aug_args.scale, all_item_names)
                    n == Len(aug_args.targets)
                IN  \E aug_item_names \in
                          [1..n -> [1..k -> Range(all_item_names)]] :
                       \* the tasks of target 1, then those of target 2, ...
                       LET tasks == [j \in 1..(n * k) |->
                               LET i == (j - 1) \div k
                                   name == aug_item_names[i + 1][((j - 1) % k) + 1]
                               IN  [name |-> name,
                                    kwargs |->
                                      [key_shift |-> RInt(aug_args.targets[i + 1]),
                                       replace_spk_id |->
                                          replace_spk_id(name[1], i, spk_count)]]]
                           queued == append_tasks(aug_map, aug_list, tasks)
                       IN  /\ aug_map' = queued.aug_map
                           /\ aug_list' = queued.aug_list
                           /\ aug_rand' = aug_rand \o [j \in 1..(n * k) |-> 0]
                           /\ total_scale' =
                                 RAdd(total_scale, RMul(aug_args.scale, RInt(n)))
                           /\ aug_pc' = "random_time_stretching"
    /\ UNCHANGED <<hparams, augmentation_args, spk_count, all_item_names>>

RSub(a, b) == <<a[1] * b[2] - b[1] * a[2], a[2] * b[2]>>

\* line 320: the speed of the linear domain for the drawn value
\* rand / RandSteps
speed_linear(speed_min, speed_max, rand) ==
    IF rand >= 0
    THEN RAdd(RInt(1), RMul(RSub(speed_max, RInt(1)), <<rand, RandSteps>>))
    ELSE RAdd(RInt(1), RMul(RSub(RInt(1), speed_min), <<rand, RandSteps>>))

\* lines 314-320: the speeds one draw may give.  In the log domain
\* speed_min * (speed_max / speed_min) ** random.random() is some value of
\* [speed_min, speed_max): the model draws it from the same grid.
Speeds(domain, speed_min, speed_max) ==
    LET grid == {speed_linear(speed_min, speed_max, r) : r \in UniformDraws}
    IN  IF domain = "linear" THEN grid
        ELSE {v \in grid : RLeq(speed_min, v) /\ RLess(v, speed_max)}

\* aug_item['kwargs']['speed'] = speed
with_speed(task, speed) ==
    [task EXCEPT !.kwargs =
        [x \in DOMAIN task.kwargs \cup {"speed"} |->
            IF x = "speed" THEN speed ELSE task.kwargs[x]]]

\* lines 313-341: the loop over zip(aug_types, aug_items); an aug_item of
\* type 1 or 2 is a reference into the global list
RECURSIVE stretch_loop(_, _, _, _, _)
stretch_loop(map, list, aug_types, aug_items, speeds) ==
    IF aug_types = <<>> THEN [aug_map |-> map, aug_list |-> list]
    ELSE LET aug_type == Head(aug_types)
             aug_item == Head(aug_items)
             speed == Head(speeds)
         IN  IF aug_type = 0
             THEN stretch_loop(
                    map_append(map, aug_item, Len(list) + 1),
                    Append(list, [name |-> aug_item,
                                  kwargs |-> [speed |-> speed]]),
                    Tail(aug_types), Tail(aug_items), Tail(speeds))
             ELSE IF aug_type = 1
             THEN \* aug_task = deepcopy(aug_item), then the speed is set
                  \* on aug_item, and aug_task is queued
                  LET aug_task == list[aug_item]
                      mutated == [list EXCEPT
                                    ![aug_item] = with_speed(@, speed)]
                  IN  stretch_loop(
                        map_append(map, aug_task.name, Len(list) + 1),
                        Append(mutated, aug_task),
                        Tail(aug_types), Tail(aug_items), Tail(speeds))
             ELSE stretch_loop(
                    map,
                    [list EXCEPT ![aug_item] = with_speed(@, speed)],
                    Tail(aug_types), Tail(aug_items), Tail(speeds))

\* lines 294-343
RandomTimeStretching ==
    /\ aug_pc = "random_time_stretching"
    /\ LET aug_args == augmentation_args.random_time_stretching
       IN  IF ~aug_args.configured
           THEN /\ aug_pc' = "returned"
                /\ UNCHANGED <<aug_map, aug_list, aug_rand, total_scale>>
           ELSE IF \/ ~hparams.use_speed_embed
                   \/ ~(/\ RLess(RInt(0), aug_args.range[1])
                        /\ RLess(aug_args.range[1], RInt(1))
                        /\ RLess(RInt(1), aug_args.range[2]))
                   \/ aug_args.domain \notin {"log", "linear"}
           THEN /\ aug_pc' = "AssertionError"
                /\ UNCHANGED <<aug_map, aug_list, aug_rand, total_scale>>
           ELSE LET scale == aug_args.scale
                    n == RInt(Len(all_item_names))
                    k_from_raw ==
                        int(RMul(RDiv(scale, RAdd(RInt(1), total_scale)), n))
                    k_from_aug ==
                        int(RMul(RDiv(RMul(total_scale, scale),
                                      RAdd(RInt(1), total_scale)), n))
                    k_mutate ==
                        int(RMul(RDiv(RMul(total_scale, scale),
                                      RAdd(RInt(1), scale)), n))
                    k == k_from_raw + k_from_aug + k_mutate
                    aug_types == [j \in 1..k |->
                        IF j <= k_from_raw THEN 0
                        ELSE IF j <= k_from_raw + k_from_aug THEN 1 ELSE 2]
                IN  IF k_from_aug + k_mutate > 0 /\ aug_list = <<>>
                    THEN \* random.choices of an empty list
                         /\ aug_pc' = "IndexError"
                         /\ UNCHANGED <<aug_map, aug_list, aug_rand,
                                        total_scale>>
                    ELSE \E from_raw \in
                               [1..k_from_raw -> Range(all_item_names)],
                            from_list \in
                               [1..(k_from_aug + k_mutate) -> 1..Len(aug_list)],
                            speeds \in
                               [1..k -> Speeds(aug_args.domain,
                                               aug_args.range[1],
                                               aug_args.range[2])] :
                            LET done == stretch_loop(aug_map, aug_list,
                                           aug_types, from_raw \o from_list,
                                           speeds)
                            IN  /\ aug_map' = done.aug_map
                                /\ aug_list' = done.aug_list
                                /\ aug_rand' = aug_rand \o
                                     [j \in 1..(Len(done.aug_list)
                                                - Len(aug_list)) |-> 0]
                                /\ total_scale' = RAdd(total_scale, scale)
                                /\ aug_pc' = "returned"
    /\ UNCHANGED <<hparams, augmentation_args, spk_count, all_item_names>>

\* the configurations the model draws
Half == <<1, 2>>

RpsChoices ==
    {NotConfigured}
    \cup {[configured |-> TRUE, range |-> r, scale |-> sc] :
            r \in {<<-2, 3>>}, sc \in {Half, <<3, 4>>}}
    \cup {[configured |-> TRUE, range |-> r, scale |-> Half] :
            r \in {<<1, 3>>, <<-2, 0>>}}

FpsChoices ==
    {NotConfigured}
    \cup {[configured |-> TRUE, targets |-> t, scale |-> Half] :
            t \in {<<3>>, <<3, -3>>, <<3, 3>>}}
    \cup {[configured |-> TRUE, targets |-> <<3, -3>>, scale |-> RInt(1)]}

RtsChoices ==
    {NotConfigured}
    \cup {[configured |-> TRUE, range |-> <<Half, RInt(2)>>, domain |-> d,
           scale |-> RInt(1)] : d \in {"log", "linear", "exp"}}
    \cup {[configured |-> TRUE, range |-> <<Half, RInt(1)>>,
           domain |-> "linear", scale |-> RInt(1)]}

\* every flag set, or exactly one cleared; num_spk enough for one target or
\* for two
HParamsChoices(speakers) ==
    {[use_key_shift_embed |-> TRUE, use_spk_id |-> TRUE,
      use_speed_embed |-> TRUE, num_spk |-> n * speakers] : n \in {2, 3}}
    \cup {[use_key_shift_embed |-> f[1], use_spk_id |-> f[2],
           use_speed_embed |-> f[3], num_spk |-> 3 * speakers] :
            f \in {<<FALSE, TRUE, TRUE>>, <<TRUE, FALSE, TRUE>>,
                   <<TRUE, TRUE, FALSE>>}}

\* the names of a split of n items: item k belongs to dataset (k - 1) mod
\* speakers
ItemNames(n, speakers) == [k \in 1..n |-> <<(k - 1) % speakers, k>>]

IdleArrangement ==
    /\ aug_map = <<>>
    /\ aug_list = <<>>
    /\ aug_rand = <<>>
    /\ total_scale = <<0, 1>>

InitAug ==
    /\ IdleItem
    /\ IdleCov
    /\ IdleDriver
    /\ spk_count \in 1..MaxSpk
    /\ hparams \in HParamsChoices(spk_count)
    /\ augmentation_args \in
          [random_pitch_shifting : RpsChoices,
           fixed_pitch_shifting : FpsChoices,
           random_time_stretching : RtsChoices]
    \* only fixed pitch shifting reads the dataset ids and num_spk
    /\ augmentation_args.fixed_pitch_shifting.configured
          \/ (spk_count = 1 /\ hparams.num_spk = 3)
    \* the scale of three quarters is drawn for random pitch shifting alone
    /\ \/ ~augmentation_args.random_pitch_shifting.configured
       \/ /\ ~augmentation_args.fixed_pitch_shifting.configured
          /\ ~augmentation_args.random_time_stretching.configured
       \/ /\ augmentation_args.random_pitch_shifting.configured
          /\ augmentation_args.random_pitch_shifting.scale = Half
    /\ \E n \in 0..MaxItems : all_item_names = ItemNames(n, spk_count)
    /\ IdleArrangement
    /\ aug_pc = "random_pitch_shifting"

NextAug ==
    \/ /\ RandomPitchShifting
       /\ UNCHANGED <<itemVars, covVars, drvVars>>
    \/ /\ FixedPitchShifting
       /\ UNCHANGED <<itemVars, covVars, drvVars>>
    \/ /\ RandomTimeStretching
       /\ UNCHANGED <<itemVars, covVars, drvVars>>

SpecAug == InitAug /\ [][NextAug]_vars

(***************************************************************************)
(* Parallel Binarization Driver: AcousticBinarizer.process and             *)
(* process_data_split.  An item's frame count stands for its seconds too   *)
(* (seconds = length * hop_size / audio_sample_rate).                      *)
(***************************************************************************)
None == [none |-> TRUE]

\* AcousticBinarizer.process_item, lines 187-223: raises when every frame is
\* unvoiced
acoustic_process_item(item) ==
    IF item.uv_all THEN [raised |-> TRUE]
    ELSE [raised |-> FALSE,
          item |-> [name |-> item.name, spk_id |-> item.name[1],
                    seconds |-> item.length, length |-> item.length,
                    task |-> 0]]

\* VarianceBinarizer.process_item, lines 94-104 and 140-149: returns None
\* when every frame is unvoiced
variance_item_or_none(item) ==
    IF item.uv_all THEN [raised |-> FALSE, item |-> None]
    ELSE [raised |-> FALSE,
          item |-> [name |-> item.name, spk_id |-> item.name[1],
                    seconds |-> item.length, length |-> item.length,
                    task |-> 0]]

process_item(item) ==
    IF binarizer = "acoustic" THEN acoustic_process_item(item)
    ELSE variance_item_or_none(item)

\* chunked_multiprocess_run's worker: a failure of the item is caught at the
\* item-processing boundary and becomes the skip signal
chunked_worker(item) ==
    LET r == process_item(item)
    IN  IF r.raised THEN None ELSE r.item

\* task['func'](_item, **task['kwargs']): the augmented record of task ref
spec_stretch_process_item(_item, ref, kwargs) ==
    LET length == IF "speed" \in DOMAIN kwargs
                  THEN round(_item.length * kwargs.speed[2], kwargs.speed[1])
                  ELSE _item.length
    IN  [name |-> _item.name,
         spk_id |-> IF "replace_spk_id" \in DOMAIN kwargs
                    THEN kwargs.replace_spk_id ELSE _item.spk_id,
         seconds |-> length, length |-> length, task |-> ref]

\* aug_map.get(name, [])
aug_map_get(name) == IF name \in DOMAIN aug_map THEN aug_map[name] ELSE <<>>

add_record_raw_length_only(st, rec, raw) ==
    [st EXCEPT !.records = Append(@, rec),
               !.lengths = IF raw THEN Append(@, rec.length) ELSE @,
               !.total_sec = @ + rec.seconds,
               !.total_raw_sec = IF raw THEN @ + rec.seconds ELSE @]

\* lines 151-154 (a raw record) and 158-160 (an augmented record)
add_record(st, rec, raw) ==
    [st EXCEPT !.records = Append(@, rec),
               !.lengths = Append(@, rec.length),
               !.total_sec = @ + rec.seconds,
               !.total_raw_sec = IF raw THEN @ + rec.seconds ELSE @]

\* lines 156-160
RECURSIVE apply_tasks(_, _, _)
apply_tasks(st, _item, tasks) ==
    IF tasks = <<>> THEN st
    ELSE apply_tasks(
            add_record(st,
                spec_stretch_process_item(_item, Head(tasks),
                                          aug_list[Head(tasks)].kwargs),
                FALSE),
            _item, Tail(tasks))

\* a postprocess that adds the raw record and leaves the queued tasks alone
postprocess_raw_only(st, _item) ==
    IF _item = None THEN st
    ELSE add_record(st, _item, TRUE)

\* lines 145-160
postprocess(st, _item) ==
    IF _item = None THEN st
    ELSE apply_tasks(add_record(st, _item, TRUE), _item,
                     aug_map_get(_item.name))

\* the store and the counters postprocess works on
Driver ==
    [records |-> builder[prefix].records, lengths |-> lengths,
     total_sec |-> total_sec, total_raw_sec |-> total_raw_sec]

Postprocessed(_item) ==
    LET st == postprocess(Driver, _item)
    IN  /\ builder' = [builder EXCEPT ![prefix].records = st.records]
        /\ lengths' = st.lengths
        /\ total_sec' = st.total_sec
        /\ total_raw_sec' = st.total_raw_sec

\* self.meta_data_iterator(prefix)
meta_data_iterator(p) ==
    LET idx == {k \in 1..Len(corpus) : corpus[k].prefix = p}
        nth(j) == CHOOSE k \in idx :
                     Cardinality({m \in idx : m < k}) = j - 1
    IN  [j \in 1..Cardinality(idx) |-> corpus[nth(j)]]

\* lines 67-72: the valid split runs serially and without augmentation
workers_of(p) == IF p = "train" THEN num_workers ELSE 0

apply_augmentation(p) ==
    /\ p = "train"
    /\ \/ augmentation_args.random_pitch_shifting.configured
       \/ augmentation_args.fixed_pitch_shifting.configured
       \/ augmentation_args.random_time_stretching.configured

\* lines 128-143, up to the call of arrange_data_augmentation
BeginSplit ==
    /\ pc = "begin_split"
    /\ args' = meta_data_iterator(prefix)
    /\ lengths' = <<>>
    /\ total_sec' = 0
    /\ total_raw_sec' = 0
    /\ aug_map' = <<>>
    /\ aug_list' = <<>>
    /\ aug_rand' = <<>>
    /\ total_scale' = <<0, 1>>
    /\ IF apply_augmentation(prefix)
       THEN /\ all_item_names' =
                  [j \in 1..Len(meta_data_iterator(prefix)) |->
                      meta_data_iterator(prefix)[j].name]
            /\ aug_pc' = "random_pitch_shifting"
            /\ pc' = "arrange"
       ELSE /\ pc' = "run"
            /\ UNCHANGED <<all_item_names, aug_pc>>
    /\ UNCHANGED <<hparams, augmentation_args, spk_count>>
    /\ UNCHANGED <<corpus, num_workers, prefix, results, builder,
                   lengths_file, error, processed>>

Arranging(block) ==
    /\ pc = "arrange"
    /\ block
    /\ UNCHANGED drvVars

\* line 143: arrange_data_augmentation returned the map
ArrangeReturned ==
    /\ pc = "arrange"
    /\ aug_pc = "returned"
    /\ pc' = "run"
    /\ aug_pc' = "idle"
    /\ UNCHANGED <<hparams, augmentation_args, spk_count, all_item_names,
                   aug_map, aug_list, aug_rand, total_scale>>
    /\ UNCHANGED <<corpus, num_workers, prefix, args, results, builder,
                   lengths, lengths_file, total_sec, total_raw_sec, error,
                   processed>>

\* line 143: arrange_data_augmentation raised; process ends with the error
ArrangeRaised ==
    /\ pc = "arrange"
    /\ aug_pc \in {"AssertionError", "IndexError"}
    /\ pc' = "aborted"
    /\ error' = aug_pc
    /\ UNCHANGED augVars
    /\ UNCHANGED <<corpus, num_workers, prefix, args, results, builder,
                   lengths, lengths_file, total_sec, total_raw_sec,
                   processed>>

\* lines 170-173: one iteration of the serial loop
SerialItem ==
    /\ pc = "run"
    /\ workers_of(prefix) = 0
    /\ args # <<>>
    /\ processed' = processed \cup {Head(args).name}
    /\ args' = Tail(args)
    /\ LET r == process_item(Head(args))
       IN  IF r.raised
           THEN \* the exception leaves process_data_split and process
                /\ pc' = "aborted"
                /\ error' = "BinarizationError"
                /\ UNCHANGED <<builder, lengths, total_sec, total_raw_sec>>
           ELSE /\ Postprocessed(r.item)
                /\ UNCHANGED <<pc, error>>
    /\ UNCHANGED augVars
    /\ UNCHANGED <<corpus, num_workers, prefix, results, lengths_file>>

\* a worker that adds the record of its item to the store by itself
WorkerItem_adds_item ==
    /\ pc = "run"
    /\ workers_of(prefix) > 0
    /\ \E i \in 1..Len(args) :
          /\ Postprocessed(chunked_worker(args[i]))
          /\ processed' = processed \cup {args[i].name}
          /\ args' = SubSeq(args, 1, i - 1) \o SubSeq(args, i + 1, Len(args))
    /\ UNCHANGED augVars
    /\ UNCHANGED <<corpus, num_workers, pc, prefix, results, lengths_file,
                   error>>

\* line 165: a worker of chunked_multiprocess_run finishes one item; the
\* items finish in any order
WorkerItem ==
    /\ pc = "run"
    /\ workers_of(prefix) > 0
    /\ \E i \in 1..Len(args) :
          /\ results' = Append(results, chunked_worker(args[i]))
          /\ processed' = processed \cup {args[i].name}
          /\ args' = SubSeq(args, 1, i - 1) \o SubSeq(args, i + 1, Len(args))
    /\ UNCHANGED augVars
    /\ UNCHANGED <<corpus, num_workers, pc, prefix, builder, lengths,
                   lengths_file, total_sec, total_raw_sec, error>>

\* lines 164-168: the driver takes the next result and post-processes it
ConsumeResult ==
    /\ pc = "run"
    /\ workers_of(prefix) > 0
    /\ results # <<>>
    /\ Postprocessed(Head(results))
    /\ results' = Tail(results)
    /\ UNCHANGED augVars
    /\ UNCHANGED <<corpus, num_workers, pc, prefix, args, lengths_file,
                   error, processed>>

\* a finalize that does not wait for the loop over the results to end
FinalizeStore_in_loop ==
    /\ pc = "run"
    /\ builder' = [builder EXCEPT ![prefix].finalized = TRUE]
    /\ pc' = "save"
    /\ UNCHANGED augVars
    /\ UNCHANGED <<corpus, num_workers, prefix, args, results, lengths,
                   lengths_file, total_sec, total_raw_sec, error, processed>>

\* line 175: builder.finalize()
FinalizeStore ==
    /\ pc = "run"
    /\ args = <<>>
    /\ results = <<>>
    /\ builder' = [builder EXCEPT ![prefix].finalized = TRUE]
    /\ pc' = "save"
    /\ UNCHANGED augVars
    /\ UNCHANGED <<corpus, num_workers, prefix, args, results, lengths,
                   lengths_file, total_sec, total_raw_sec, error, processed>>

\* lines 176-185: the lengths are saved and the totals printed; the
\* augmentation ratio divides by total_raw_sec
SaveLengths ==
    /\ pc = "save"
    /\ lengths_file' = [lengths_file EXCEPT
                          ![prefix] = [saved |-> TRUE, data |-> lengths]]
    /\ IF apply_augmentation(prefix) /\ total_raw_sec = 0
       THEN /\ pc' = "aborted"
            /\ error' = "ZeroDivisionError"
            /\ UNCHANGED prefix
       ELSE IF prefix = "valid"
       THEN /\ prefix' = "train"
            /\ pc' = "begin_split"
            /\ UNCHANGED error
       ELSE /\ pc' = "done"
            /\ UNCHANGED <<prefix, error>>
    /\ UNCHANGED augVars
    /\ UNCHANGED <<corpus, num_workers, args, results, builder, lengths,
                   total_sec, total_raw_sec, processed>>

\* the corpora the model draws: item k has frame count k + 1, belongs to
\* dataset (k - 1) mod speakers, and uv_all says whether the pitch estimator
\* finds every frame unvoiced (uv.all())
Corpora(speakers) ==
    UNION {[1..n -> [prefix : Splits, uv_all : BOOLEAN]] : n \in 0..MaxItems}

CorpusOf(c, speakers) ==
    [k \in 1..Len(c) |->
        [name |-> <<(k - 1) % speakers, k>>, prefix |-> c[k].prefix,
         uv_all |-> c[k].uv_all, length |-> k + 1]]

ValidHParams(speakers) ==
    [use_key_shift_embed |-> TRUE, use_spk_id |-> TRUE,
     use_speed_embed |-> TRUE, num_spk |-> 3 * speakers]

NoAugmentation ==
    [random_pitch_shifting |-> NotConfigured,
     fixed_pitch_shifting |-> NotConfigured,
     random_time_stretching |-> NotConfigured]

\* the augmentation configurations the driver is run with
DriverConfigs ==
    LET rps(r) == [configured |-> TRUE, range |-> r, scale |-> Half]
        fps(t) == [configured |-> TRUE, targets |-> t, scale |-> Half]
        rts(r, d) == [configured |-> TRUE, range |-> r, domain |-> d,
                      scale |-> Half]
    IN  {NoAugmentation,
         [NoAugmentation EXCEPT !.random_pitch_shifting = rps(<<-2, 3>>)],
         [NoAugmentation EXCEPT !.random_pitch_shifting = rps(<<1, 3>>)],
         [NoAugmentation EXCEPT !.fixed_pitch_shifting = fps(<<3, -3>>)],
         [NoAugmentation EXCEPT !.fixed_pitch_shifting = fps(<<3, 3>>)],
         [NoAugmentation EXCEPT !.random_pitch_shifting = rps(<<-2, 3>>),
                                !.fixed_pitch_shifting = fps(<<3>>)],
         [NoAugmentation EXCEPT
             !.random_time_stretching = rts(<<Half, RInt(2)>>, "linear")],
         [NoAugmentation EXCEPT
             !.random_time_stretching = rts(<<Half, RInt(1)>>, "log")],
         [NoAugmentation EXCEPT
             !.random_pitch_shifting = rps(<<-2, 3>>),
             !.random_time_stretching = rts(<<Half, RInt(2)>>, "log")]}

Init ==
    /\ IdleItem
    /\ items = <<>>
    /\ ph_required = {}
    /\ cov_pc = "idle"
    /\ cov_result = [status |-> "none"]
    /\ binarizer \in {"acoustic", "variance"}
    /\ spk_count \in 1..MaxSpk
    /\ hparams = ValidHParams(spk_count)
    /\ augmentation_args \in DriverConfigs
    \* VarianceBinarizer.arrange_data_augmentation returns {}
    /\ binarizer = "variance" => augmentation_args = NoAugmentation
    /\ augmentation_args.fixed_pitch_shifting.configured \/ spk_count = 1
    /\ \E c \in Corpora(spk_count) : corpus = CorpusOf(c, spk_count)
    /\ num_workers \in {0, 2}
    /\ all_item_names = <<>>
    /\ IdleArrangement
    /\ aug_pc = "idle"
    /\ pc = "begin_split"
    /\ prefix = "valid"
    /\ FreshStores

Next ==
    \/ BeginSplit /\ UNCHANGED <<itemVars, covVars>>
    \/ Arranging(RandomPitchShifting) /\ UNCHANGED <<itemVars, covVars>>
    \/ Arranging(FixedPitchShifting) /\ UNCHANGED <<itemVars, covVars>>
    \/ Arranging(RandomTimeStretching) /\ UNCHANGED <<itemVars, covVars>>
    \/ ArrangeReturned /\ UNCHANGED <<itemVars, covVars>>
    \/ ArrangeRaised /\ UNCHANGED <<itemVars, covVars>>
    \/ SerialItem /\ UNCHANGED <<itemVars, covVars>>
    \/ WorkerItem /\ UNCHANGED <<itemVars, covVars>>
    \/ ConsumeResult /\ UNCHANGED <<itemVars, covVars>>
    \/ FinalizeStore /\ UNCHANGED <<itemVars, covVars>>
    \/ SaveLengths /\ UNCHANGED <<itemVars, covVars>>

Spec == Init /\ [][Next]_vars

(***************************************************************************)
(* Claims about the driver (Spec).                                         *)
(***************************************************************************)
ItemsOf(p) == {k \in 1..Len(corpus) : corpus[k].prefix = p}

RecordNames(p) ==
    {builder[p].records[j].name : j \in 1..Len(builder[p].records)}

\* C1: when process_item meets an item whose pitch estimate is unvoiced on
\* every frame, process_data_split adds no record and no length entry for
\* it, and still processes every remaining item of the split, finalizes the
\* store and writes the length index: the split does not abort.
C1_UnvoicedItemSkipped ==
    /\ error # "BinarizationError"
    /\ \A p \in Splits : \A k \in ItemsOf(p) :
          corpus[k].uv_all => corpus[k].name \notin RecordNames(p)
    /\ \A p \in Splits :
          lengths_file[p].saved =>
              /\ builder[p].finalized
              /\ Len(lengths_file[p].data) = Len(builder[p].records)
              /\ \A k \in ItemsOf(p) :
                    /\ corpus[k].name \in processed
                    /\ ~corpus[k].uv_all => corpus[k].name \in RecordNames(p)

\* the configuration defects the scheduler rejects
InvalidConfiguration ==
    LET rps == augmentation_args.random_pitch_shifting
        fps == augmentation_args.fixed_pitch_shifting
        rts == augmentation_args.random_time_stretching
    IN  \/ rps.configured /\ ~(rps.range[1] < 0 /\ 0 < rps.range[2])
        \/ fps.configured /\ rps.configured
        \/ fps.configured /\ ~NoDuplicates(fps.targets)
        \/ fps.configured
             /\ hparams.num_spk < (1 + Len(fps.targets)) * spk_count
        \/ fps.configured /\ RLeq(RInt(1), fps.scale)
        \/ rts.configured
             /\ ~(/\ RLess(RInt(0), rts.range[1])
                  /\ RLess(rts.range[1], RInt(1))
                  /\ RLess(RInt(1), rts.range[2]))
        \/ rts.configured /\ rts.domain \notin {"log", "linear"}

\* C7: an invalid or mutually exclusive augmentation configuration is
\* rejected by process before any item of any split has been processed and
\* before any record has been added to any store.
C7_RejectedBeforeProcessing ==
    InvalidConfiguration =>
        /\ processed = {}
        /\ \A p \in Splits : builder[p].records = <<>>
        /\ pc # "done"

\* ls holds one entry per record of recs, in the same order
LengthsOf(recs) == [j \in 1..Len(recs) |-> recs[j].length]

\* C10: at every point of process_data_split, and in the saved file, the
\* length index has exactly one entry per record added to the store, in the
\* same order: its k-th entry is the 'length' of the k-th record (raw and
\* augmented alike), in serial and in parallel mode, for any completion
\* order of the workers.
C10_LengthIndexAligned ==
    /\ pc \in {"arrange", "run", "save"} =>
          lengths = LengthsOf(builder[prefix].records)
    /\ \A p \in Splits :
          lengths_file[p].saved =>
              lengths_file[p].data = LengthsOf(builder[p].records)

\* C10 witness: a train split done in parallel mode whose workers finished
\* out of submission order, with a raw record followed by an augmented
\* record of another length, and the length index saved.
C10_Witness ==
    /\ pc = "done"
    /\ num_workers > 0
    /\ lengths_file["train"].saved
    /\ \E j \in 1..(Len(builder["train"].records) - 1) :
          /\ builder["train"].records[j].task = 0
          /\ builder["train"].records[j + 1].task # 0
          /\ builder["train"].records[j + 1].length
                # builder["train"].records[j].length
    /\ \E j \in 1..(Len(builder["train"].records) - 1) :
          builder["train"].records[j].name[2]
              > builder["train"].records[j + 1].name[2]

\* the store of split p is finalized only when every item of the split went
\* through process_item and postprocess, and the length index of p is on
\* disk only when the store of p is finalized
FinalizedAfterAll(p) ==
    /\ builder[p].finalized =>
          /\ p = prefix => (args = <<>> /\ results = <<>> /\ pc # "run")
          /\ \A k \in ItemsOf(p) :
                /\ corpus[k].name \in processed
                /\ ~corpus[k].uv_all => corpus[k].name \in RecordNames(p)
    /\ lengths_file[p].saved => builder[p].finalized

\* a step that finalizes the store of p is taken by process_data_split(p)
\* with nothing left to consume and adds no record; a finalized store is
\* never written or finalized again
FinalizeStep(p) ==
    /\ (~builder[p].finalized /\ builder'[p].finalized) =>
          /\ p = prefix /\ pc = "run" /\ pc' = "save"
          /\ args = <<>> /\ results = <<>>
          /\ builder'[p].records = builder[p].records
          /\ ~lengths_file[p].saved
    /\ builder[p].finalized =>
          /\ builder'[p] = builder[p]
          /\ ~(p = prefix /\ pc' = "run")

\* C11: in process_data_split the store is finalized once, and only after
\* the result of every item of the split has been consumed and
\* post-processed; no record is added after finalize, and the length index
\* is written only after finalize.
C11_FinalizeAfterAllConsumed ==
    /\ [](\A p \in Splits : FinalizedAfterAll(p))
    /\ [][\A p \in Splits : FinalizeStep(p)]_vars

\* C11 witness: a train split run in parallel mode, with a skipped item and
\* an added one, finalized and its length index saved.
C11_Witness ==
    /\ pc = "done"
    /\ num_workers > 0
    /\ builder["train"].finalized
    /\ lengths_file["train"].saved
    /\ builder["train"].records # <<>>
    /\ \E k \in ItemsOf("train") : corpus[k].uv_all

\* the record at position j of recs is a raw record and the records that
\* follow it are the augmented records of the tasks queued under its name,
\* one per task and in queue order
AugmentedAfterRaw(recs, j) ==
    LET queue == aug_map_get(recs[j].name)
    IN  /\ j + Len(queue) <= Len(recs)
        /\ \A i \in 1..Len(queue) :
              /\ recs[j + i].task = queue[i]
              /\ recs[j + i].name = recs[j].name

\* how many records of recs task ref has produced
TimesApplied(recs, ref) ==
    Cardinality({j \in 1..Len(recs) : recs[j].task = ref})

RawNames(recs) == {recs[j].name : j \in {i \in 1..Len(recs) : recs[i].task = 0}}

\* C12 as stated: when the split completes, every task of the schedule has
\* produced exactly one augmented record, placed right after the raw record
\* of its item and in queue order.
C12_EveryTaskAppliedOnce ==
    (pc = "done" /\ apply_augmentation(prefix)) =>
        LET recs == builder[prefix].records
        IN  /\ \A ref \in 1..Len(aug_list) : TimesApplied(recs, ref) = 1
            /\ \A j \in 1..Len(recs) :
                  recs[j].task = 0 => AugmentedAfterRaw(recs, j)

\* C12 amended: at every point of the split, each raw record of the store is
\* directly followed by one augmented record per task queued under its
\* name, in queue order; a task is applied once if the raw record of its
\* item is in the store and not at all otherwise, so the tasks queued under
\* an item that was skipped stay unapplied when the split completes.
C12_TasksOfAddedItemsAppliedOnce ==
    (pc \in {"run", "save", "done"} /\ apply_augmentation(prefix)) =>
        LET recs == builder[prefix].records
        IN  /\ \A j \in 1..Len(recs) :
                  recs[j].task = 0 => AugmentedAfterRaw(recs, j)
            /\ \A ref \in 1..Len(aug_list) :
                  TimesApplied(recs, ref) =
                      IF aug_list[ref].name \in RawNames(recs) THEN 1 ELSE 0
            /\ pc = "done" =>
                  \A k \in ItemsOf(prefix) :
                      corpus[k].name \in RawNames(recs) <=> ~corpus[k].uv_all

\* C12 witness: a completed train split where one item carries two stacked
\* tasks, both applied after its raw record, and a skipped item carries none
\* of the records.
C12_Witness ==
    /\ pc = "done"
    /\ apply_augmentation(prefix)
    /\ \E j \in 1..Len(builder[prefix].records) :
          /\ builder[prefix].records[j].task = 0
          /\ Len(aug_map_get(builder[prefix].records[j].name)) = 2
    /\ \E k \in ItemsOf(prefix) : corpus[k].uv_all

\* what postprocess writes: the records of the store and the counters
Written == <<builder[prefix].records, lengths, total_sec, total_raw_sec>>

\* the records a step has appended to the store of the split
Appended ==
    SubSeq(builder'[prefix].records, Len(builder[prefix].records) + 1,
           Len(builder'[prefix].records))

\* C16: in parallel mode, for every order in which the workers finish, the
\* store and lengths, total_sec and total_raw_sec are written only by the
\* driver's step that consumes one result: that step takes the oldest
\* result off the queue and appends the raw record of that item followed by
\* its augmented records and nothing of another item, with the counters
\* updated for exactly these records; a step in which a worker finishes an
\* item writes nothing.
C16_DriverSoleWriter ==
    [][(pc = "run" /\ workers_of(prefix) > 0) =>
          /\ args' # args => Written' = Written
          /\ Written' # Written =>
                /\ args' = args
                /\ results # <<>>
                /\ results' = Tail(results)
                /\ Head(results) # None
                /\ builder'[prefix].records
                      = builder[prefix].records \o Appended
                /\ Appended # <<>>
                /\ Appended[1] = Head(results)
                /\ \A j \in 2..Len(Appended) :
                      /\ Appended[j].name = Head(results).name
                      /\ Appended[j].task # 0
                /\ lengths' = lengths \o LengthsOf(Appended)
                /\ total_sec' = total_sec
                      + SumSeq([j \in 1..Len(Appended) |-> Appended[j].seconds])
                /\ total_raw_sec' = total_raw_sec + Head(results).seconds]_vars

\* C16 witness: parallel mode, the workers finished out of submission
\* order, the result that came first is post-processed (its raw and
\* augmented record are in the store) and the result of the item submitted
\* before it is still waiting.
C16_Witness ==
    /\ pc = "run"
    /\ workers_of(prefix) > 0
    /\ results # <<>>
    /\ Head(results) # None
    /\ Len(builder[prefix].records) >= 2
    /\ builder[prefix].records[1].name[2] > Head(results).name[2]
    /\ builder[prefix].records[2].task # 0

(***************************************************************************)
(* Claims about the Augmentation Scheduler (SpecAug).                      *)
(***************************************************************************)
\* the tasks queued over all per-item lists, as (item name, position) pairs
QueuedEntries(map) ==
    UNION {{<<n, i>> : i \in 1..Len(map[n])} : n \in DOMAIN map}

OnlyRandomPitchShifting ==
    /\ augmentation_args.random_pitch_shifting.configured
    /\ ~augmentation_args.fixed_pitch_shifting.configured
    /\ ~augmentation_args.random_time_stretching.configured

FixedShiftTasks == {j \in 1..Len(aug_list) :
                      "replace_spk_id" \in DOMAIN aug_list[j].kwargs}

\* the 0-based index of the target a fixed-shift task was made for
TargetIndex(task) ==
    CHOOSE i \in 0..(Len(augmentation_args.fixed_pitch_shifting.targets) - 1) :
        RInt(augmentation_args.fixed_pitch_shifting.targets[i + 1])
            = task.kwargs.key_shift

\* C9: a fixed pitch shifting task for target index i on an item of dataset
\* id s carries replace_spk_id = s + (i + 1) * speaker_count; the id differs
\* from every pre-existing speaker id (0 .. speaker_count - 1), tasks with
\* different (s, i) carry different ids, and every id is below num_spk.
C9_ReplacementSpeakerIds ==
    \A j \in FixedShiftTasks :
        LET task == aug_list[j]
            s == task.name[1]
            i == TargetIndex(task)
            id == task.kwargs.replace_spk_id
        IN  /\ id = s + (i + 1) * spk_count
            /\ id \notin 0..(spk_count - 1)
            /\ id < hparams.num_spk
            /\ \A j2 \in FixedShiftTasks :
                  LET other == aug_list[j2]
                  IN  (other.name[1] # s \/ TargetIndex(other) # i)
                         => other.kwargs.replace_spk_id # id

\* C9 witness: two targets on items of two datasets: tasks of different
\* datasets and of different targets were scheduled.
C9_Witness ==
    /\ aug_pc = "returned"
    /\ \E j, j2 \in FixedShiftTasks :
          /\ aug_list[j].name[1] # aug_list[j2].name[1]
          /\ TargetIndex(aug_list[j]) # TargetIndex(aug_list[j2])

\* the step of arrange_data_augmentation that runs the random time
\* stretching block to its end
StretchingStep ==
    /\ aug_pc = "random_time_stretching"
    /\ aug_pc' = "returned"
    /\ augmentation_args.random_time_stretching.configured

\* line 309: the size of the in-place mutation pool
MutationPoolSize ==
    LET scale == augmentation_args.random_time_stretching.scale
    IN  int(RMul(RDiv(RMul(total_scale, scale), RAdd(RInt(1), scale)),
                 RInt(Len(all_item_names))))

\* the pitch-shift parameters of a task
PitchKwargs(task) ==
    [x \in DOMAIN task.kwargs \ {"speed"} |-> task.kwargs[x]]

\* C13: in random time stretching, every task the block creates carries the
\* newly drawn speed; a chained task (one made from an already-scheduled
\* task) carries the item name and the pitch-shift parameters of a task
\* scheduled before; and the already-scheduled tasks stay as they were
\* except those picked by the in-place mutation pool, so at most as many of
\* them change as that pool has entries.
C13_ChainedTaskLeavesSource ==
    [][StretchingStep =>
         /\ Len(aug_list') >= Len(aug_list)
         /\ \A j \in (Len(aug_list) + 1)..Len(aug_list') :
               /\ "speed" \in DOMAIN aug_list'[j].kwargs
               /\ DOMAIN aug_list'[j].kwargs # {"speed"} =>
                     \E i \in 1..Len(aug_list) :
                        /\ aug_list[i].name = aug_list'[j].name
                        /\ PitchKwargs(aug_list[i]) = PitchKwargs(aug_list'[j])
         /\ Cardinality({i \in 1..Len(aug_list) : aug_list'[i] # aug_list[i]})
               <= MutationPoolSize]_vars

(***************************************************************************)
(* Claims about the Coverage Validator (SpecCov).                          *)
(***************************************************************************)
Checked == cov_pc = "checked"

\* the set of phonemes observed over all items
Observed == UNION {Range(items[k]) : k \in 1..Len(items)}

CoverageFailed == cov_result.status = "BinarizationError"

MismatchReported ==
    /\ CoverageFailed
    /\ cov_result.message = "mismatch"
    /\ cov_result.unrecognizable = sorted(Observed \ ph_required)
    /\ cov_result.missing = sorted(ph_required \ Observed)

FirstItemEmpty == Len(items) > 0 /\ items[1] = <<>>

C6_AnyEmptyItemFails ==
    (Checked /\ binarizer = "acoustic"
        /\ \E k \in 1..Len(items) : items[k] = <<>>)
    => (CoverageFailed /\ cov_result.message = "Empty tokens")


(***************************************************************************)
(* Claims about the Timeline Aligner (SpecItem).                           *)
(***************************************************************************)
Processed == item_pc = "processed"

\* m has exactly L entries, is non-decreasing, and every entry is in 1..N
AlignedTo(m, L, N) ==
    /\ Len(m) = L
    /\ NonDecreasing(m)
    /\ \A p \in 1..Len(m) : m[p] \in 1..N

\* C2: the frame->unit arrays process_item gets from the Timeline Aligner
\* (mel2ph for the target frame count length, mel2note for the target frame
\* count len(mel2ph)) have exactly the target number of entries, are
\* non-decreasing, and every entry lies in 1..N, N the number of units.
C2_AlignmentShape ==
    Processed =>
        /\ AlignedTo(processed_input.mel2ph, processed_input.length,
                     Len(meta_data.ph_dur))
        /\ AlignedTo(processed_input.mel2note, Len(processed_input.mel2ph),
                     Len(meta_data.note_dur))

\* C2 witness: an item whose mel2ph was truncated (the phoneme boundaries
\* imply more frames than length) and whose mel2note was extended (the notes
\* imply fewer frames than the target).
C2_Witness ==
    /\ Processed
    /\ Len(get_mel2ph_torch_unfitted(meta_data.ph_dur, 0, timestep))
         > Len(processed_input.mel2ph)
    /\ Len(get_mel2ph_torch_unfitted(meta_data.note_dur, 0, timestep))
         < Len(processed_input.mel2note)
    /\ Len(processed_input.mel2note) > 0

\* C3: the per-unit frame counts stored in the record (ph_dur) sum exactly to
\* the record's target frame count (length = len(mel2ph)), and unit i's
\* stored frame count is the number of frames of mel2ph that carry index i.
C3_StoredDurationsRoundTrip ==
    Processed =>
        /\ SumSeq(processed_input.ph_dur) = processed_input.length
        /\ processed_input.length = Len(processed_input.mel2ph)
        /\ \A i \in 1..Len(meta_data.ph_dur) :
              processed_input.ph_dur[i] = FramesOf(processed_input.mel2ph, i)

\* every unit duration is a whole number of frames
WholeFrames == \A i \in 1..Len(meta_data.ph_dur) : meta_data.ph_dur[i] % timestep = 0

\* C4: when every unit duration is a whole number k_i of frames, mel2ph has
\* exactly sum(k_i) frames and unit i occupies one contiguous run of exactly
\* k_i frames carrying index i, in unit order.
C4_WholeFrameRuns ==
    (Processed /\ WholeFrames) =>
        /\ Len(processed_input.mel2ph) = SumSeq(meta_data.ph_dur) \div timestep
        /\ NonDecreasing(processed_input.mel2ph)
        /\ \A i \in 1..Len(meta_data.ph_dur) :
              FramesOf(processed_input.mel2ph, i) = meta_data.ph_dur[i] \div timestep

(***************************************************************************)
(* Claims about the Pitch Curve Builder (SpecPitch).                       *)
(***************************************************************************)
\* the step curve of line 115, from the stored mel2note
StepCurve ==
    frame_midi_pitch_of(meta_data.note_seq, processed_input.mel2note)

\* the frames of phoneme i that are not rest
NonRestFrames(i) ==
    {p \in 1..Len(processed_input.mel2ph) :
        processed_input.mel2ph[p] = i /\ ~processed_input.rest[p]}

\* every phoneme and every note of the item lasts some time
PositiveDurations(md) ==
    /\ md.ph_dur # <<>>
    /\ \A i \in 1..Len(md.ph_dur) : md.ph_dur[i] > 0
    /\ \A n \in 1..Len(md.note_dur) : md.note_dur[n] > 0

\* C14: for every phoneme the phoneme-level pitch (midi before .long()) is
\* the sum of the frame-level note pitch over the phoneme's non-rest frames
\* in mel2ph divided by the number of those frames; a phoneme without a
\* non-rest frame gets 0; the divisor is positive.  Checked on the items
\* whose durations are all positive.
C14_PhonemeMeanOverNonRest ==
    (Processed /\ PositiveDurations(meta_data)) =>
        \A i \in 1..Len(meta_data.ph_dur) :
            LET frames == NonRestFrames(i)
                total == SumSeq([p \in 1..Len(StepCurve) |->
                                   IF p \in frames THEN StepCurve[p] ELSE 0])
                midi == processed_input.midi[i]
            IN  /\ midi[2] > 0
                /\ IF frames = {} THEN midi[1] = 0
                   ELSE midi[1] * Cardinality(frames) = total * midi[2]

\* C15: for every item load_meta_data accepts, the interpolation of
\* process_item succeeds, and afterwards every frame of the curve carries
\* the pitch of the non-rest frame nearest to it, so no frame is left at the
\* rest value 0.  Checked on the items whose durations are all positive.
C15_NoRestAfterInterpolation ==
    (Processed /\ Accepted(meta_data) /\ PositiveDurations(meta_data)) =>
        /\ processed_input.base_pitch.error = "none"
        /\ \A p \in 1..Len(processed_input.mel2ph) :
              LET v == processed_input.base_pitch.frame_midi_pitch[p]
              IN  /\ v # 0
                  /\ \E q \in 1..Len(StepCurve) :
                        /\ StepCurve[q] = v
                        /\ \A r \in 1..Len(StepCurve) :
                              StepCurve[r] # 0 =>
                                 Abs(q - p) <= Abs(r - p)

====
